---- MODULE Spec2Model ----
(***************************************************************************)
(* A model of SelicCalc (src/solution/solution.py): the input validator,   *)
(* the series loader, the window optimizer, the compounding engine, the    *)
(* aggregator and the CSV persistence, as run by calc_amount.              *)
(*                                                                         *)
(* Numbers: the program computes in IEEE doubles.  The model computes in   *)
(* exact rationals [n, d] (normalised, d > 0); rounding is not modelled.   *)
(* Dates are records [y, m, d]; a dd/mm/yyyy string is the tuple of its    *)
(* three fields in the order they are written, <<dd, mm, yyyy>>.           *)
(***************************************************************************)
EXTENDS Integers, Sequences, FiniteSets, TLC

(* ------------------------------------------------------------------ *)
(* Bounds of the model and constants of the program                    *)
(* ------------------------------------------------------------------ *)

\* max_val_range's default window length (range_of: int = 500)
RangeOf == 500

\* the longest fetched series has RangeOf + 1 + MaxExtra records
MaxExtra == 1

\* calc_amount calls made on the one instance
MaxCalls == 2

\* longest series given directly to compound_interest / reshape_df / max_val_range
MaxLen == 4

\* the last day of a month on which the modelled rate source publishes a rate
LastPublishedDay == 25

(* ------------------------------------------------------------------ *)
(* Exact arithmetic standing for Python floats / pandas float64        *)
(* ------------------------------------------------------------------ *)

\* NaN is the one value with denominator 0
NaN == [n |-> 0, d |-> 0]

Abs(x) == IF x < 0 THEN -x ELSE x

RECURSIVE GCD(_, _)
GCD(a, b) == IF b = 0 THEN a ELSE GCD(b, a % b)

Rat(n, d) ==
    LET g == GCD(Abs(n), Abs(d))
        s == IF d < 0 THEN -1 ELSE 1
    IN  [n |-> (s * n) \div g, d |-> (s * d) \div g]

RInt(k) == [n |-> k, d |-> 1]

RAdd(a, b) == Rat(a.n * b.d + b.n * a.d, a.d * b.d)

RSub(a, b) == Rat(a.n * b.d - b.n * a.d, a.d * b.d)

RMul(a, b) ==
    \* cross-cancel first, so that intermediate products stay small
    LET g1 == GCD(Abs(a.n), b.d)
        g2 == GCD(Abs(b.n), a.d)
        h1 == IF g1 = 0 THEN 1 ELSE g1
        h2 == IF g2 = 0 THEN 1 ELSE g2
    IN  Rat((a.n \div h1) * (b.n \div h2), (a.d \div h2) * (b.d \div h1))

RDivInt(a, k) == Rat(a.n, a.d * k)

RGT(a, b) == a.n * b.d > b.n * a.d

RGE(a, b) == a.n * b.d >= b.n * a.d

(* ------------------------------------------------------------------ *)
(* Dates: datetime.date / datetime.datetime / pandas Timestamp         *)
(* ------------------------------------------------------------------ *)

Date(y, m, d) == [y |-> y, m |-> m, d |-> d]

DateLT(a, b) ==
    \/ a.y < b.y
    \/ a.y = b.y /\ a.m < b.m
    \/ a.y = b.y /\ a.m = b.m /\ a.d < b.d

DateLE(a, b) == a = b \/ DateLT(a, b)

\* the next / previous day on which the rate source publishes
NextDay(a) ==
    IF a.d < LastPublishedDay THEN Date(a.y, a.m, a.d + 1)
    ELSE IF a.m < 12 THEN Date(a.y, a.m + 1, 1)
    ELSE Date(a.y + 1, 1, 1)

PrevDay(a) ==
    IF a.d > 1 THEN Date(a.y, a.m, a.d - 1)
    ELSE IF a.m > 1 THEN Date(a.y, a.m - 1, LastPublishedDay)
    ELSE Date(a.y - 1, 12, LastPublishedDay)

\* the k-th publishing day after a
AddDays(a, k) ==
    LET t      == (a.m - 1) * LastPublishedDay + (a.d - 1) + k
        months == t \div LastPublishedDay
    IN  Date(a.y + months \div 12, (months % 12) + 1, (t % LastPublishedDay) + 1)

\* datetime.strftime(x, "%d/%m/%Y"): the fields as written, day first
strftime(a) == <<a.d, a.m, a.y>>

\* pd.to_datetime(s, format="%d/%m/%Y"): the fields read day first
to_datetime_dmy(s) == Date(s[3], s[2], s[1])

\* pd.to_datetime(s) with no format (dayfirst=False): the first field is the
\* month whenever it can be one, and only otherwise the day
to_datetime(s) ==
    IF s[1] <= 12 THEN Date(s[3], s[1], s[2]) ELSE Date(s[3], s[2], s[1])

(* ------------------------------------------------------------------ *)
(* Python values given as arguments                                    *)
(* ------------------------------------------------------------------ *)

\* an argument in a date position: a date, a datetime (at midnight), a str, None
DateArg(kind, a) == [kind |-> kind, date |-> a]

\* a capital: an int, a float or a str; "unset" before the attribute exists
Capital(kind, r) == [kind |-> kind, val |-> r]

\* isinstance(x, (float, int))
IsNumber(c) == c.kind \in {"int", "float"}

\* isinstance(x, (datetime, date))
IsDateObject(x) == x.kind \in {"date", "datetime"}

\* Python orders a date with a date and a datetime with a datetime; comparing a
\* datetime with a date raises TypeError
Comparable(x, y) == x.kind = y.kind

CapitalTypeError == "capital should be int or float"
DateOrderError   == "start_date cannot be greater than end_date"
DateTypeError    == "Inputs are in wrong format, should be date object"
PyTypeError      == "TypeError: can't compare datetime.datetime to datetime.date"

Raise(msg) == [ok |-> FALSE, error |-> msg, value |-> <<>>]
Return(v)  == [ok |-> TRUE, error |-> "", value |-> v]

\* the comparison start_date >= end_date, for comparable arguments
StartNotBeforeEnd(s, e) == DateLE(e.date, s.date)

is_valid_input(capital, start_date, end_date) ==
    IF ~IsNumber(capital) THEN Raise(CapitalTypeError)
    ELSE IF IsDateObject(start_date) /\ IsDateObject(end_date)
    THEN IF ~Comparable(start_date, end_date) THEN Raise(PyTypeError)
         ELSE IF StartNotBeforeEnd(start_date, end_date) THEN Raise(DateOrderError)
         ELSE Return(<<strftime(start_date.date), strftime(end_date.date)>>)
    ELSE Raise(DateTypeError)

(* ------------------------------------------------------------------ *)
(* pandas Series operations used by the compounding formula            *)
(* ------------------------------------------------------------------ *)

\* a sequence given row by row, as the tuple of its rows
Rows(f) == f \o <<>>

\* a shift that moves nothing: every rate lands on its own row
no_shift(s) == s

\* Series.shift(): every value one row later, NaN in the first row
shift(s) == Rows([i \in 1..Len(s) |-> IF i = 1 THEN NaN ELSE s[i - 1]])

\* Series.add(1): NaN stays NaN
add1(s) == Rows([i \in 1..Len(s) |-> IF s[i] = NaN THEN NaN ELSE RAdd(s[i], RInt(1))])

\* Series.cumprod() over rows lo..hi, acc the product of the rows before lo: the
\* running product, NaN rows skipped and left NaN.  The pair of the rows and of
\* the product after hi.
RECURSIVE CumProdRange(_, _, _, _)
CumProdRange(s, lo, hi, acc) ==
    IF lo > hi THEN [rows |-> <<>>, acc |-> acc]
    ELSE IF lo = hi
    THEN IF s[lo] = NaN THEN [rows |-> <<NaN>>, acc |-> acc]
         ELSE LET p == RMul(acc, s[lo]) IN [rows |-> <<p>>, acc |-> p]
    ELSE LET mid   == (lo + hi) \div 2
             left  == CumProdRange(s, lo, mid, acc)
             right == CumProdRange(s, mid + 1, hi, left.acc)
         IN  [rows |-> left.rows \o right.rows, acc |-> right.acc]

cumprod(s) == CumProdRange(s, 1, Len(s), RInt(1)).rows

\* Series.fillna(1)
fillna1(s) == Rows([i \in 1..Len(s) |-> IF s[i] = NaN THEN RInt(1) ELSE s[i]])

\* df[col]: one column of a frame, as a sequence
Column(df, col) == Rows([i \in 1..Len(df) |-> df[i][col]])

\* c * df["valor"].shift().add(1).cumprod().fillna(1)
Compounded(c, valor) ==
    LET f == fillna1(cumprod(add1(shift(valor))))
    IN  Rows([i \in 1..Len(valor) |-> RMul(c, f[i])])

(* ------------------------------------------------------------------ *)
(* Frames: a DataFrame is the sequence of its rows, in row order       *)
(* ------------------------------------------------------------------ *)

\* df.sort_values(by=["data"]) and df.sort_index() once "data" is the index
sort_by_date(df) == SortSeq(df, LAMBDA a, b : DateLT(a.data, b.data))

\* lines 124-125: the first row goes when it is earlier than the start date, as
\* pd.to_datetime reads start_date_str
trim(df, start_date_str) ==
    IF DateLT(df[1].data, to_datetime(start_date_str)) THEN Tail(df) ELSE df

\* line 128: df["valor"] = df["valor"] / 100
to_fraction(df) ==
    Rows([i \in 1..Len(df) |-> [data |-> df[i].data, valor |-> RDivInt(df[i].valor, 100)]])

\* lines 116-120: the rows of the response, dates read as dd/mm/yyyy
parse_rows(resp) ==
    Rows([i \in 1..Len(resp) |->
        [data |-> to_datetime_dmy(resp[i].data), valor |-> RInt(resp[i].valor)]])

\* lines 116-128
load_series(resp, start_date_str) ==
    to_fraction(trim(sort_by_date(parse_rows(resp)), start_date_str))

\* lines 137-138 and compound_interest: the column "compound"
compound_interest(df, c) ==
    LET col == Compounded(c, Column(df, "valor"))
    IN  Rows([i \in 1..Len(df) |->
            [data |-> df[i].data, valor |-> df[i].valor, compound |-> col[i]]])

\* calc_sum: the rows dated start..end, compounded from the capital; the last value
calc_sum(start_date, end_date, df, c) ==
    LET _df == SelectSeq(df, LAMBDA r : DateLE(start_date, r.data) /\ DateLE(r.data, end_date))
        x   == Compounded(c, Column(_df, "valor"))
    IN  x[Len(x)]

\* the comparison with >= in place of >
AtLeast(value, best_value) == RGE(value, best_value)

\* line 84: value > best_value
Better(value, best_value) == RGT(value, best_value)

NoWindow == [found |-> FALSE, start |-> Date(0, 0, 0), end |-> Date(0, 0, 0), value |-> RInt(0)]

\* line 79: for i in range(length), from i
RECURSIVE ScanFrom(_, _, _, _, _)
ScanFrom(df, range_of, c, i, best) ==
    IF i >= Len(df) - range_of THEN best
    ELSE LET start == df[i + 1].data
             end   == df[i + range_of].data
             value == calc_sum(start, end, df, c)
         IN  ScanFrom(df, range_of, c, i + 1,
                 IF Better(value, best.value)
                 THEN [found |-> TRUE, start |-> start, end |-> end, value |-> value]
                 ELSE best)

\* max_val_range: the window it prints, or the AttributeError of best_start.date()
\* when no window was kept (best_start is None)
AttributeError == "AttributeError: 'NoneType' object has no attribute 'date'"

max_val_range(df, range_of, c) ==
    LET best == ScanFrom(df, range_of, c, 0, NoWindow)
    IN  IF best.found THEN Return(best) ELSE Raise(AttributeError)

\* the group of a row: df.index.year, or df.index.year and df.index.month
GroupKey(frequency, a) == IF frequency = "month" THEN <<a.y, a.m>> ELSE <<a.y>>

Reverse(s) == Rows([i \in 1..Len(s) |-> s[Len(s) + 1 - i]])

\* of rows lo..hi, the first row of every group not in seen (the groups of the rows
\* before lo), in row order; with the groups seen up to hi
RECURSIVE FirstRows(_, _, _, _, _)
FirstRows(df, frequency, lo, hi, seen) ==
    IF lo > hi THEN [rows |-> <<>>, seen |-> seen]
    ELSE IF lo = hi
    THEN LET key == GroupKey(frequency, df[lo].data)
         IN  IF key \in seen THEN [rows |-> <<>>, seen |-> seen]
             ELSE [rows |-> <<df[lo]>>, seen |-> seen \cup {key}]
    ELSE LET mid   == (lo + hi) \div 2
             left  == FirstRows(df, frequency, lo, mid, seen)
             right == FirstRows(df, frequency, mid + 1, hi, left.seen)
         IN  [rows |-> left.rows \o right.rows, seen |-> right.seen]

\* groupby(key).head(1) in place of tail(1)
groupby_head(df, frequency) ==
    IF frequency \in {"month", "year"}
    THEN FirstRows(df, frequency, 1, Len(df), {}).rows
    ELSE df

\* groupby(key).tail(1): of every group the last row, rows kept in row order; the
\* last rows are the first rows met from the end
groupby_tail(df, frequency) ==
    IF frequency \in {"month", "year"}
    THEN Reverse(FirstRows(Reverse(df), frequency, 1, Len(df), {}).rows)
    ELSE df

\* earned, then the column drop and renames of reshape_df
earned(df, self_cap) ==
    Rows([i \in 1..Len(df) |->
        [Date |-> df[i].data, Capital |-> df[i].compound,
         AmountEarned |-> RSub(df[i].compound, self_cap.val)]])

reshape_df(df, frequency, self_cap) ==
    earned(sort_by_date(groupby_tail(df, frequency)), self_cap)

NoFile == <<>>

\* a save_csv that writes without looking
save_csv_always(files, file_name, content) ==
    [files EXCEPT ![file_name] = <<content>>]

\* save_csv: the file is written only when glob finds no file of that name
save_csv(files, file_name, content) ==
    IF files[file_name] = NoFile
    THEN [files EXCEPT ![file_name] = <<content>>]
    ELSE files

(* ------------------------------------------------------------------ *)
(* The rate source (an HTTP API outside the repository)                *)
(* ------------------------------------------------------------------ *)

\* the published rate, in percent, of the i-th of n rows
RateAt(pattern, i, n) ==
    CASE pattern = "flat"  -> 0
      [] pattern = "early" -> (IF i = 1 THEN 1 ELSE IF i = 2 THEN 2 ELSE 0)
      [] pattern = "late"  -> (IF i >= n - 1 THEN 1 ELSE 0)

Patterns == {"early", "late"}

\* n rows of consecutive publishing days from first, dates as dd/mm/yyyy, in the
\* order the source sends them
Response(first, n, pattern, order) ==
    Rows([i \in 1..n |->
        LET k == IF order = "asc" THEN i ELSE n + 1 - i
        IN  [data |-> strftime(AddDays(first, k - 1)), valor |-> RateAt(pattern, k, n)]])

\* series too short for one window, and series of RangeOf + 1 rows and more
SeriesLengths == {1, 2} \cup (RangeOf + 1 .. RangeOf + 1 + MaxExtra)

\* the source answers a request for start..end with the rows from the first
\* publishing day on or after start, and may add the one before it
FirstDates(start) == {PrevDay(start), start, NextDay(start)}

(* ------------------------------------------------------------------ *)
(* State                                                               *)
(* ------------------------------------------------------------------ *)

VARIABLES
    pc,            \* where calc_amount stands; "idle" between calls
    calls,         \* calc_amount calls started on the instance
    self_capital,  \* self.capital
    args,          \* start_date, end_date, capital of the running call
    frequency,     \* the frequency argument, once reshape_df has read it
    range_of,      \* the window length max_val_range is given
    strs,          \* start_date_str, end_date_str
    requests,      \* HTTP GETs issued by the running call
    resp,          \* the rows of the HTTP response, until they are read into df
    df,            \* the frame df of calc_amount
    df_raw,        \* the copy of line 134
    best,          \* the window max_val_range printed
    files,         \* the CSV files of the working directory; a file's content is
                   \* identified by the call that wrote it
    written,       \* the files the running call wrote
    outcome,       \* what the call returned or raised
    stages         \* the stages the running call has entered, in order

vars == <<pc, calls, self_capital, args, frequency, range_of, strs, requests, resp,
          df, df_raw, best, files, written, outcome, stages>>

Unset == Capital("unset", NaN)

\* date(2010, 1, 11), date(2010, 1, 13), date(2010, 1, 14),
\* datetime(2010, 1, 13), "13/01/2010"
StartArgs ==
    {DateArg("date", Date(2010, 1, 11)), DateArg("date", Date(2010, 1, 13)),
     DateArg("date", Date(2010, 1, 14)), DateArg("datetime", Date(2010, 1, 13)),
     DateArg("str", Date(2010, 1, 13))}

\* date(2010, 1, 13), datetime(2011, 3, 1), None
EndArgs ==
    {DateArg("date", Date(2010, 1, 13)), DateArg("datetime", Date(2011, 3, 1)),
     DateArg("none", Date(0, 0, 0))}

\* 1000, 2.5, "100"
Capitals ==
    {Capital("int", RInt(1000)), Capital("float", Rat(5, 2)), Capital("str", RInt(100))}

Frequencies == {"daily", "day", "month", "year"}

FileNames == {"solution.csv", "df_raw.csv"}

NoArgs == [start_date |-> DateArg("none", Date(0, 0, 0)),
           end_date |-> DateArg("none", Date(0, 0, 0)),
           capital |-> Unset]

Pending == [ok |-> FALSE, error |-> "pending", value |-> <<>>]

Init ==
    /\ pc = "idle"
    /\ calls = 0
    /\ self_capital = Unset
    /\ args = NoArgs
    /\ frequency = "unread"
    /\ range_of = RangeOf
    /\ strs = <<>>
    /\ requests = 0
    /\ resp = <<>>
    /\ df = <<>>
    /\ df_raw = <<>>
    /\ best = NoWindow
    /\ files = [f \in FileNames |-> NoFile]
    /\ written = {}
    /\ outcome = Pending
    /\ stages = <<>>

(* ------------------------------------------------------------------ *)
(* calc_amount, stage by stage                                         *)
(*                                                                     *)
(* One call runs Validate, Fetch, Load, Optimize, Compound, Reshape,   *)
(* SaveAndReturn in this order, and no other call starts before it is  *)
(* left.  start_date, end_date and capital are drawn when the call     *)
(* starts; frequency and save_csv, which nothing reads before line 141 *)
(* and line 144, are drawn by the stage that reads them.               *)
(* ------------------------------------------------------------------ *)

StageAfter(stage) ==
    CASE stage = "validator"   -> "validated"
      [] stage = "fetch"       -> "fetched"
      [] stage = "loader"      -> "loaded"
      [] stage = "optimizer"   -> "optimized"
      [] stage = "compounding" -> "compounded"
      [] stage = "aggregator"  -> "reshaped"
      [] stage = "persistence" -> "returned"

\* a calc_amount that catches what a stage raises and goes on
AfterCaught(stage, ok) == StageAfter(stage)

\* calc_amount catches nothing: a stage that raises ends the call, a stage that
\* does not is followed by the next one
After(stage, ok) == IF ~ok THEN "raised" ELSE StageAfter(stage)

\* an attribute set only while the instance has none
StoreOnce(old, capital) == IF old.kind = "unset" THEN capital ELSE old

\* line 104: self.capital = capital
StoreCapital(old, capital) == capital

\* the locals of calc_amount are gone when it is left
DropLocals ==
    /\ df' = <<>>
    /\ df_raw' = <<>>
    /\ resp' = <<>>

\* lines 104-105: self.capital = capital, then the validator
Validate ==
    /\ pc \in {"idle", "returned", "raised"}
    /\ calls < MaxCalls
    /\ \E start_date \in StartArgs, end_date \in EndArgs, capital \in Capitals :
         LET stored == StoreCapital(self_capital, capital)
             v      == is_valid_input(stored, start_date, end_date)
         IN  /\ args' = [start_date |-> start_date, end_date |-> end_date,
                         capital |-> capital]
             /\ self_capital' = stored
             /\ pc' = After("validator", v.ok)
             /\ strs' = v.value
             /\ outcome' = IF v.ok THEN Pending ELSE Raise(v.error)
    /\ calls' = calls + 1
    /\ stages' = <<"validator">>
    /\ frequency' = "unread"
    /\ requests' = 0
    /\ best' = NoWindow
    /\ written' = {}
    /\ DropLocals
    /\ UNCHANGED <<files, range_of>>

\* lines 108-116: the GET, answered with rows or failing
Fetch ==
    /\ pc = "validated"
    /\ requests' = requests + 1
    /\ stages' = Append(stages, "fetch")
    /\ \/ /\ pc' = After("fetch", FALSE)
          /\ outcome' = Raise("the request failed")
          /\ DropLocals
       \/ /\ \E first \in FirstDates(to_datetime_dmy(strs[1])), n \in SeriesLengths,
                pattern \in Patterns, order \in {"asc", "desc"} :
                resp' = Response(first, n, pattern, order)
          /\ pc' = After("fetch", TRUE)
          /\ UNCHANGED <<df, df_raw, outcome>>
    /\ UNCHANGED <<calls, self_capital, args, frequency, range_of, strs, best, files,
                   written>>

\* lines 116-128: parse, sort, trim, percent to fraction
Load ==
    /\ pc = "fetched"
    /\ df' = load_series(resp, strs[1])
    /\ resp' = <<>>
    /\ pc' = After("loader", TRUE)
    /\ UNCHANGED <<calls, self_capital, args, frequency, range_of, strs, requests,
                   df_raw, best, files, written, outcome, stages>>

\* line 131: max_val_range(df)
Optimize ==
    /\ pc = "loaded"
    /\ stages' = Append(stages, "optimizer")
    /\ LET r == max_val_range(df, range_of, self_capital.val)
       IN  /\ pc' = After("optimizer", r.ok)
           /\ IF r.ok
              THEN /\ best' = r.value
                   /\ UNCHANGED <<df, df_raw, resp, outcome>>
              ELSE /\ outcome' = Raise(r.error)
                   /\ DropLocals
                   /\ UNCHANGED best
    /\ UNCHANGED <<calls, self_capital, args, frequency, range_of, strs, requests,
                   files, written>>

\* lines 134-138: the raw copy, then the column "compound"
Compound ==
    /\ pc = "optimized"
    /\ stages' = Append(stages, "compounding")
    /\ df_raw' = df
    /\ df' = compound_interest(df, args.capital.val)
    /\ pc' = After("compounding", TRUE)
    /\ UNCHANGED <<calls, self_capital, args, frequency, range_of, strs, requests,
                   resp, best, files, written, outcome>>

\* line 141: reshape_df(df, frequency)
Reshape ==
    /\ pc = "compounded"
    /\ stages' = Append(stages, "aggregator")
    /\ \E f \in Frequencies :
         /\ frequency' = f
         /\ df' = reshape_df(df, f, self_capital)
    /\ pc' = After("aggregator", TRUE)
    /\ UNCHANGED <<calls, self_capital, args, range_of, strs, requests, resp, df_raw,
                   best, files, written, outcome>>

\* lines 144-148: the two save_csv calls when save_csv is set, and the return
SaveAndReturn ==
    /\ pc = "reshaped"
    /\ \E save \in BOOLEAN :
         IF save
         THEN LET f1 == save_csv(files, "solution.csv", calls)
                  f2 == save_csv(f1, "df_raw.csv", calls)
              IN  /\ files' = f2
                  /\ written' = {f \in FileNames : f2[f] # files[f]}
                  /\ stages' = Append(stages, "persistence")
         ELSE UNCHANGED <<files, written, stages>>
    /\ outcome' = Return(df)
    /\ pc' = After("persistence", TRUE)
    /\ DropLocals
    /\ UNCHANGED <<calls, self_capital, args, frequency, range_of, strs, requests,
                   best>>

Next ==
    \/ Validate
    \/ Fetch
    \/ Load
    \/ Optimize
    \/ Compound
    \/ Reshape
    \/ SaveAndReturn

Spec == Init /\ [][Next]_vars

(* ------------------------------------------------------------------ *)
(* compound_interest and reshape_df on short series                    *)
(* ------------------------------------------------------------------ *)

\* the days a short series is drawn from: two years, three months
EngineDates ==
    <<Date(2010, 1, 11), Date(2010, 1, 12), Date(2010, 2, 1), Date(2010, 12, 24),
      Date(2011, 1, 3), Date(2011, 1, 4)>>

\* published rates, in percent
Rates == {0, 1, 2}

\* the days picked, in ascending order
RECURSIVE Ascending(_, _)
Ascending(picked, i) ==
    IF i > Len(EngineDates) THEN <<>>
    ELSE (IF i \in picked THEN <<EngineDates[i]>> ELSE <<>>) \o Ascending(picked, i + 1)

\* a series as calc_amount holds it after the loader: ascending, one row a day,
\* rates as fractions
Series(days, rates) ==
    [i \in 1..Len(days) |-> [data |-> days[i], valor |-> RDivInt(RInt(rates[i]), 100)]]

NumberCapitals == {c \in Capitals : IsNumber(c)}

EngineInit ==
    /\ pc = "optimized"
    /\ calls = 1
    /\ \E c \in NumberCapitals :
         /\ self_capital = c
         /\ args = [NoArgs EXCEPT !.capital = c]
    /\ frequency = "unread"
    /\ range_of = RangeOf
    /\ strs = <<>>
    /\ requests = 1
    /\ resp = <<>>
    /\ \E picked \in SUBSET (1..Len(EngineDates)) :
         /\ Cardinality(picked) \in 1..MaxLen
         /\ \E rates \in [1..Cardinality(picked) -> Rates] :
              df = Series(Ascending(picked, 1), rates)
    /\ df_raw = <<>>
    /\ best = NoWindow
    /\ files = [f \in FileNames |-> NoFile]
    /\ written = {}
    /\ outcome = Pending
    /\ stages = <<"validator", "fetch", "optimizer">>

EngineNext ==
    \/ Compound
    \/ Reshape

SpecEngine == EngineInit /\ [][EngineNext]_vars

(* ------------------------------------------------------------------ *)
(* max_val_range on short series, with short windows                   *)
(* ------------------------------------------------------------------ *)

WindowCapitals == {Capital("int", RInt(1000)), Capital("int", RInt(0)),
                   Capital("float", Rat(-5, 2))}

WindowInit ==
    /\ pc = "loaded"
    /\ calls = 1
    /\ \E c \in WindowCapitals :
         /\ self_capital = c
         /\ args = [NoArgs EXCEPT !.capital = c]
    /\ frequency = "unread"
    /\ range_of \in 1..MaxLen
    /\ strs = <<>>
    /\ requests = 1
    /\ resp = <<>>
    /\ \E n \in 1..MaxLen :
         \E rates \in [1..n -> Rates] :
            df = Series([i \in 1..n |-> AddDays(Date(2010, 1, 24), i - 1)], rates)
    /\ df_raw = <<>>
    /\ best = NoWindow
    /\ files = [f \in FileNames |-> NoFile]
    /\ written = {}
    /\ outcome = Pending
    /\ stages = <<"validator", "fetch">>

WindowNext == Optimize

SpecWindow == WindowInit /\ [][WindowNext]_vars

(* ------------------------------------------------------------------ *)
(* Properties                                                          *)
(* ------------------------------------------------------------------ *)

One == RInt(1)

\* C1: the compounded series starts at the capital, and every later value is the
\* value of the row before times (1 + the rate of the row before): the rate of a
\* day is applied to the next day's row, never to its own.
C1_LagInvariant ==
    pc = "compounded" =>
        /\ df[1].compound = args.capital.val
        /\ \A i \in 2..Len(df) :
              df[i].compound = RMul(df[i - 1].compound, RAdd(One, df[i - 1].valor))

\* capital 1000 with rates 0.01, 0.02, 0.0 compounds to 1000, 1010, 1030.2
C1_Witness ==
    /\ pc = "compounded"
    /\ args.capital.val = RInt(1000)
    /\ Column(df, "valor") = <<Rat(1, 100), Rat(2, 100), RInt(0)>>
    /\ Column(df, "compound") = <<RInt(1000), RInt(1010), Rat(10302, 10)>>

\* C2: the validator answers a capital that is no number with the capital-type
\* error, a date argument that is no date with the date-type error, two dates with
\* start >= end with the ordering error, and everything else with the two dates
\* written dd/mm/yyyy, start first.
C2_ValidatorContract ==
    stages = <<"validator">> =>
        LET c == args.capital
            s == args.start_date
            e == args.end_date
        IN  IF c.kind \notin {"int", "float"}
            THEN pc = "raised" /\ outcome.error = CapitalTypeError
            ELSE IF s.kind \notin {"date", "datetime"} \/ e.kind \notin {"date", "datetime"}
            THEN pc = "raised" /\ outcome.error = DateTypeError
            ELSE IF ~DateLT(s.date, e.date)
            THEN pc = "raised" /\ outcome.error = DateOrderError
            ELSE /\ pc = "validated"
                 /\ strs = <<<<s.date.d, s.date.m, s.date.y>>,
                             <<e.date.d, e.date.m, e.date.y>>>>

\* the daily compounded series reshape_df was given
DailySeries == compound_interest(df_raw, args.capital.val)

\* C3: for 'month' (resp. 'year') the output of reshape_df is a subsequence of the
\* daily series in ascending date order with exactly one record for each
\* (year, month) (resp. year) of the daily series, the chronologically last one of
\* its group; for 'day' and 'daily' every daily record is retained.
C3_LastOfEachGroup ==
    pc = "reshaped" =>
        LET daily == DailySeries
            key(a) == GroupKey(frequency, a)
        IN  /\ \A i \in 1..Len(df) : \A j \in 1..Len(df) :
                  i < j => DateLT(df[i].Date, df[j].Date)
            /\ \A i \in 1..Len(df) : \E k \in 1..Len(daily) :
                  daily[k].data = df[i].Date /\ daily[k].compound = df[i].Capital
            /\ frequency \in {"month", "year"} =>
                  \A k \in 1..Len(daily) :
                     /\ Cardinality({i \in 1..Len(df) : key(df[i].Date) = key(daily[k].data)}) = 1
                     /\ \A i \in 1..Len(df) :
                           key(df[i].Date) = key(daily[k].data)
                              => DateLE(daily[k].data, df[i].Date)
            /\ frequency \in {"day", "daily"} =>
                  /\ Len(df) = Len(daily)
                  /\ \A k \in 1..Len(daily) : df[k].Date = daily[k].data

\* a monthly output that left out a daily record and kept a later one of its month
C3_Witness ==
    /\ pc = "reshaped"
    /\ frequency = "month"
    /\ Len(df) = 3
    /\ Len(df_raw) = 4
    /\ df_raw[1].data = Date(2010, 1, 11)
    /\ df[1].Date = Date(2010, 1, 12)

\* C * (1 + rate) over all but the last of the L records from row s (counted from 0)
RECURSIVE GrowthOver(_, _, _)
GrowthOver(frame, from, to) ==
    IF from > to THEN One
    ELSE RMul(RAdd(One, frame[from].valor), GrowthOver(frame, from + 1, to))

WindowValue(frame, c, s, L) == RMul(c, GrowthOver(frame, s + 1, s + L - 1))

\* the start indices max_val_range scans
Scanned == 0 .. (Len(df) - range_of - 1)

\* the start indices of all windows of exactly range_of consecutive records
AllWindows == 0 .. (Len(df) - range_of)

\* C4: with more records than the window length and a positive capital, the window
\* max_val_range reports is worth at least as much as every window of exactly L
\* consecutive records, and its value is the compounding formula over it.
C4_BestOfAllWindows ==
    (pc = "optimized" /\ Len(df) > range_of /\ self_capital.val.n > 0) =>
        /\ \A s \in AllWindows :
              RGE(best.value, WindowValue(df, self_capital.val, s, range_of))
        /\ \E s \in AllWindows :
              /\ best.start = df[s + 1].data
              /\ best.end = df[s + range_of].data
              /\ best.value = WindowValue(df, self_capital.val, s, range_of)

\* C5: every record a calc_amount call returns has "Amount earned" equal to its
\* Capital minus the capital passed to that call, whatever earlier calls on the
\* instance were given.
C5_EarnedFromOwnCapital ==
    pc = "returned" =>
        \A i \in 1..Len(outcome.value) :
            outcome.value[i].AmountEarned =
                RSub(outcome.value[i].Capital, args.capital.val)

\* a second call, with capital 2.5, returns a record that has earned something,
\* after a first call that ran to the end
C5_Witness ==
    /\ pc = "returned"
    /\ calls = 2
    /\ files["solution.csv"] = <<1>>
    /\ args.capital.val = Rat(5, 2)
    /\ \E i \in 1..Len(outcome.value) : outcome.value[i].AmountEarned.n > 0

\* C6: the window scan is a side output: whatever non-empty series, short or long,
\* the loader hands over, the call goes on from the scan with that series unchanged.
C6_ScanIsSideOutput ==
    [][(pc = "loaded" /\ df # <<>>) => (pc' = "optimized" /\ df' = df)]_vars

\* C7: after the loader's sort and trim the series starts at the requested start
\* date or, when that day has no record, at the first later day that has one, and
\* no fetched record from the start date on is dropped.
C7_StartsAtRequestedDate ==
    [][(pc = "fetched" /\ pc' = "loaded") =>
          LET start   == args.start_date.date
              fetched == {to_datetime_dmy(resp[i].data) : i \in 1..Len(resp)}
              wanted  == {a \in fetched : DateLE(start, a)}
              kept    == {df'[i].data : i \in 1..Len(df')}
          IN  wanted # {} =>
                 /\ df' # <<>>
                 /\ df'[1].data \in wanted
                 /\ \A a \in wanted : DateLE(df'[1].data, a)
                 /\ wanted \subseteq kept]_vars

StageOrder ==
    <<"validator", "fetch", "optimizer", "compounding", "aggregator", "persistence">>

\* C8: the stages run in the order validator, fetch, window optimizer, compounding,
\* aggregator, persistence; an error ends the call; a failed validation issues no
\* HTTP request; a call that raised wrote no file and returned no series.
C8_StagesInOrder ==
    /\ Len(stages) <= Len(StageOrder)
    /\ \A i \in 1..Len(stages) : stages[i] = StageOrder[i]
    /\ outcome.error \notin {"", "pending"} => pc = "raised"
    /\ (pc = "raised" /\ stages = <<"validator">>) => requests = 0
    /\ pc = "raised" => (written = {} /\ ~outcome.ok /\ outcome.value = <<>>)
    /\ "persistence" \in {stages[i] : i \in 1..Len(stages)} => pc = "returned"

\* a second call whose validation fails, after a first call that ran through
\* every stage and wrote its files
C8_Witness ==
    /\ calls = 2
    /\ pc = "raised"
    /\ stages = <<"validator">>
    /\ requests = 0
    /\ files["solution.csv"] = <<1>>
    /\ files["df_raw.csv"] = <<1>>

\* C9: a file that exists is never changed, and files change only in a call that
\* was asked to save.
C9_NeverOverwrites ==
    [][/\ \A f \in FileNames : files[f] # NoFile => files'[f] = files[f]
       /\ files' # files => stages'[Len(stages')] = "persistence"]_vars

\* a second call that was asked to save and found both files of the first call
C9_Witness ==
    /\ calls = 2
    /\ pc = "returned"
    /\ stages[Len(stages)] = "persistence"
    /\ written = {}
    /\ files["solution.csv"] = <<1>>
    /\ files["df_raw.csv"] = <<1>>

\* C10: of the scanned windows that share the greatest value, max_val_range reports
\* the one with the smallest start index.
C10_EarliestOfTheBest ==
    pc = "optimized" =>
        \E s \in Scanned :
            /\ best.start = df[s + 1].data
            /\ best.end = df[s + range_of].data
            /\ best.value = WindowValue(df, self_capital.val, s, range_of)
            /\ \A t \in Scanned :
                  RGE(best.value, WindowValue(df, self_capital.val, t, range_of))
            /\ \A t \in Scanned :
                  t < s => RGT(best.value, WindowValue(df, self_capital.val, t, range_of))

\* two scanned windows of the same, greatest value: the first one is reported
C10_Witness ==
    /\ pc = "optimized"
    /\ Len(df) = 4
    /\ range_of = 2
    /\ best.start = df[1].data
    /\ WindowValue(df, self_capital.val, 1, range_of) = best.value
    /\ best.value = RInt(1010)

====
